---- MODULE Spec2Model ----
(***************************************************************************)
(* Model of src/actions/sources/newSources.js: the redux thunks newSource, *)
(* newSources, loadSourceMap and their helpers, run on the JavaScript      *)
(* event loop.  Every thunk is an async function: its body runs            *)
(* synchronously up to its first await, and every continuation after an    *)
(* await is a job of the FIFO microtask queue.                             *)
(***************************************************************************)
EXTENDS Naturals, Sequences, FiniteSets, TLC

\* Number of calls the debugger client makes into this layer
\* (newSource, newSources, loadSourceMap).
MaxCalls == 2

----------------------------------------------------------------------------
\* Values

\* A url is a sequence of segments; the empty sequence is the absent url
\* (null, undefined or ""), which is falsy in JavaScript.
NoUrl == <<>>

\* sourceMapURL values that are falsy in JavaScript: undefined and "".
Undefined == "undefined"

\* A source record (type Source).
Source(id, url, sourceMapURL) ==
  [id |-> id, url |-> url, sourceMapURL |-> sourceMapURL,
   isPrettyPrinted |-> FALSE, isWasm |-> FALSE, isBlackBoxed |-> FALSE,
   loadedState |-> "unloaded"]

\* A null or undefined entry of a batch, and the undefined result of
\* getSource for an id that is not registered.
Null == Source(<<>>, NoUrl, Undefined)

\* JavaScript truthiness of a string.
Falsy(s) == s = "" \/ s = Undefined

\* devtools-source-map: an original id is the generated id followed by
\* "/originalSource-<hash of url>"; isGeneratedId is "not an original id".
generatedToOriginalId(generatedId, url) ==
  generatedId \o <<"originalSource">> \o url

isGeneratedId(id) == \A i \in 1..Len(id) : id[i] # "originalSource"

\* utils/source: a pretty url is the raw url with the suffix ":formatted".
isPrettyURL(url) == Len(url) > 0 /\ url[Len(url)] = ":formatted"

getRawSourceURL(url) ==
  IF isPrettyURL(url) THEN SubSeq(url, 1, Len(url) - 1) ELSE url

----------------------------------------------------------------------------
\* State

VARIABLES
  sources,                  \* the registry: source id -> source record
  pendingSelectedLocation,  \* <<>> (null) or <<location>>
  pendingBreakpoints,       \* the stored pending breakpoints, in order
  tasks,                    \* every thunk invocation made so far
  mq,                       \* the microtask queue (FIFO)
  calls                     \* number of calls made by the client

vars ==
  <<sources, pendingSelectedLocation, pendingBreakpoints, tasks, mq, calls>>

\* Outcome of sourceMaps.getOriginalURLs: it throws, or returns null
\* (no source map), or returns a list of urls.
NoResult == [kind |-> "pending", urls |-> <<>>]

\* One invocation of a thunk.  parent is the task awaiting it (0: nobody),
\* caller the task that dispatched it (0: the client), ns the newSources
\* invocation on whose behalf it runs (0: none).  effects are the plain
\* actions it has dispatched and the calls to collaborators it has made, in
\* order; settled is the number of those calls that have returned or thrown.
BlankTask ==
  [kind |-> "", pc |-> "", parent |-> 0, caller |-> 0, ns |-> 0,
   sourceId |-> <<>>, source |-> Null, batch |-> <<>>, filtered |-> <<>>,
   bps |-> <<>>, k |-> 0, waiting |-> 0, result |-> NoResult,
   effects |-> <<>>, settled |-> 0]

\* A dispatched plain action (ADD_SOURCES, UPDATE_SOURCE) or a call to a
\* collaborator, made by task.
Effect(type, task, sourceId) ==
  [type |-> type, task |-> task, sourceId |-> sourceId, sources |-> <<>>,
   location |-> <<>>, breakpoint |-> <<>>]

\* The part of the state a thunk reads and writes while it runs.
State == [sources |-> sources, tasks |-> tasks, mq |-> mq]

Emit(st, effect) ==
  [st EXCEPT !.tasks[effect.task].effects = Append(@, effect)]

Spawn(st, task) == [st EXCEPT !.tasks = Append(@, task)]

NextTid(st) == Len(st.tasks) + 1

\* A job of the microtask queue: the continuation of task tid after an
\* await ("resume"), or a reaction of the Promise.all that task tid awaits
\* ("all"); ok tells whether the awaited promise was fulfilled or rejected.
Enqueue(st, kind, tid, ok) ==
  [st EXCEPT !.mq = Append(@, [kind |-> kind, task |-> tid, ok |-> ok])]

\* The promise of task tid is settled, fulfilled ("done") or rejected: the
\* reaction of the task awaiting it, if any, is queued.  Promise.all has one
\* reaction per element.
SettleAs(st, tid, pc) ==
  LET t == st.tasks[tid]
      s1 == [st EXCEPT !.tasks[tid].pc = pc]
  IN  IF t.parent = 0 THEN s1
      ELSE IF t.kind = "loadSourceMap"
      THEN Enqueue(s1, "all", t.parent, pc = "done")
      ELSE Enqueue(s1, "resume", t.parent, pc = "done")

\* The thunk returns.
Settle(st, tid) == SettleAs(st, tid, "done")

\* The thunk throws: an exception reaches the top of the async function.
Reject(st, tid) == SettleAs(st, tid, "rejected")

Settled(task) == task.pc \in {"done", "rejected"}

\* `await promise-of-child` in task awaiter.
Await(st, awaiter, child) ==
  IF Settled(st.tasks[child])
  THEN Enqueue(st, "resume", awaiter, st.tasks[child].pc = "done")
  ELSE [st EXCEPT !.tasks[child].parent = awaiter]

----------------------------------------------------------------------------
\* Selectors and reducers (the store)

getSource(reg, id) == IF id \in DOMAIN reg THEN reg[id] ELSE Null

getPendingSelectedLocation == pendingSelectedLocation

IsFor(url, bp) == bp.sourceUrl = url

getPendingBreakpointsForSource(url) ==
  SelectSeq(pendingBreakpoints, LAMBDA bp : IsFor(url, bp))

\* reducer of UPDATE_SOURCE, and of ADD_SOURCES per source
updateSource(reg, source) ==
  [id \in DOMAIN reg \cup {source.id} |->
     IF id = source.id THEN source ELSE reg[id]]

RECURSIVE addSources(_, _)
addSources(reg, srcs) ==
  IF srcs = <<>> THEN reg
  ELSE addSources(updateSource(reg, Head(srcs)), Tail(srcs))

\* loadSourceText marks the source as loading, then as loaded.
setLoadedState(reg, id, loadedState) ==
  IF id \in DOMAIN reg
  THEN [reg EXCEPT ![id].loadedState = loadedState]
  ELSE reg

----------------------------------------------------------------------------
\* The thunks, each up to its first await

\* Mutant: the original source is created as loaded.
createOriginalSourceLoaded(originalUrl, generatedSource) ==
  [url |-> originalUrl,
   id |-> generatedToOriginalId(generatedSource.id, originalUrl),
   isPrettyPrinted |-> FALSE, isWasm |-> FALSE, isBlackBoxed |-> FALSE,
   loadedState |-> "loaded", sourceMapURL |-> Undefined]

\* createOriginalSource, lines 30-43.
createOriginalSource(originalUrl, generatedSource) ==
  [url |-> originalUrl,
   id |-> generatedToOriginalId(generatedSource.id, originalUrl),
   isPrettyPrinted |-> FALSE, isWasm |-> FALSE, isBlackBoxed |-> FALSE,
   loadedState |-> "unloaded", sourceMapURL |-> Undefined]

\* Mutant: the early return looks at the id only.
NeedsSourceMapIgnoringUrl(source) == isGeneratedId(source.id)

\* Mutant: no early return.
NeedsSourceMapAlways(source) == TRUE

\* loadSourceMap, lines 61-69: re-fetch the source (toJS of a missing source
\* throws, which rejects the thunk's promise), return early, or call the
\* resolver and wait for it.
NeedsSourceMap(source) ==
  ~ (~ isGeneratedId(source.id) \/ Falsy(source.sourceMapURL))

loadSourceMap(st, sourceId, ns, caller) ==
  LET source == getSource(st.sources, sourceId)
      tid == NextTid(st)
      task == [BlankTask EXCEPT !.kind = "loadSourceMap", !.ns = ns,
                 !.caller = caller, !.sourceId = sourceId, !.source = source]
  IN  IF source = Null THEN Spawn(st, [task EXCEPT !.pc = "rejected"])
      ELSE IF ~ NeedsSourceMap(source)
      THEN Spawn(st, [task EXCEPT !.pc = "done"])
      ELSE Emit(Spawn(st, [task EXCEPT !.pc = "getOriginalURLs"]),
                Effect("getOriginalURLs", tid, sourceId))

\* { ...pendingLocation, sourceId: source.id }
withSourceId(location, sourceId) ==
  [url |-> location.url, line |-> location.line, sourceId |-> sourceId]

\* Mutant: a pretty pending url is selected like a raw one.
selectionRequestNoPretty(pendingLocation, source) ==
  IF \/ pendingLocation = <<>>
     \/ pendingLocation[1].url = NoUrl
     \/ source.url = NoUrl
  THEN "none"
  ELSE IF getRawSourceURL(pendingLocation[1].url) = source.url
       THEN "selectLocation" ELSE "none"

\* checkSelectedSource, lines 98-115: what it requests for the source.
selectionRequest(pendingLocation, source) ==
  IF \/ pendingLocation = <<>>
     \/ pendingLocation[1].url = NoUrl
     \/ source.url = NoUrl
  THEN "none"
  ELSE
    LET pendingUrl == pendingLocation[1].url
        rawPendingUrl == getRawSourceURL(pendingUrl)
    IN  IF rawPendingUrl = source.url
        THEN IF isPrettyURL(pendingUrl) THEN "togglePrettyPrint"
             ELSE "selectLocation"
        ELSE "none"

\* checkSelectedSource, lines 96-114, up to its await.
checkSelectedSource(st, sourceId, ns) ==
  LET source == getSource(st.sources, sourceId)
      pendingLocation == getPendingSelectedLocation
      tid == NextTid(st)
      task == [BlankTask EXCEPT !.kind = "checkSelectedSource", !.ns = ns,
                 !.caller = ns, !.sourceId = sourceId]
      request == selectionRequest(pendingLocation, source)
  IN  IF source = Null THEN Spawn(st, [task EXCEPT !.pc = "rejected"])
      ELSE IF request = "togglePrettyPrint"
      THEN Emit(Spawn(st, [task EXCEPT !.pc = "togglePrettyPrint"]),
                Effect("togglePrettyPrint", tid, source.id))
      ELSE IF request = "selectLocation"
      THEN Emit(Spawn(st, [task EXCEPT !.pc = "selectLocation"]),
                [Effect("selectLocation", tid, source.id)
                   EXCEPT !.location =
                     <<withSourceId(pendingLocation[1], source.id)>>])
      ELSE Spawn(st, [task EXCEPT !.pc = "done"])

\* Mutant: the source text is loaded whether or not breakpoints are pending.
NoPendingBreakpointsNever(bps) == FALSE

\* checkPendingBreakpoints, line 129: !pendingBreakpoints.size
NoPendingBreakpoints(bps) == Len(bps) = 0

\* checkPendingBreakpoints, lines 122-134.
checkPendingBreakpoints(st, sourceId, ns) ==
  LET source == getSource(st.sources, sourceId)
      bps == getPendingBreakpointsForSource(source.url)
      tid == NextTid(st)
      task == [BlankTask EXCEPT !.kind = "checkPendingBreakpoints",
                 !.ns = ns, !.caller = ns, !.sourceId = sourceId,
                 !.bps = bps]
  IN  IF source = Null THEN Spawn(st, [task EXCEPT !.pc = "rejected"])
      ELSE IF NoPendingBreakpoints(bps)
      THEN Spawn(st, [task EXCEPT !.pc = "done"])
      ELSE
        LET s1 == Emit(Spawn(st, [task EXCEPT !.pc = "loadSourceText"]),
                       Effect("loadSourceText", tid, sourceId))
        IN  [s1 EXCEPT !.sources = setLoadedState(@, sourceId, "loading")]

\* Mutant: the loop dispatches the selection check only.
RECURSIVE checkSourcesSelectionOnly(_, _, _)
checkSourcesSelectionOnly(st, srcs, ns) ==
  IF srcs = <<>> THEN st
  ELSE checkSourcesSelectionOnly(
         checkSelectedSource(st, Head(srcs).id, ns), Tail(srcs), ns)

\* Mutant: newSources awaits the intent checks it dispatches.
RECURSIVE checkSourcesAwaited(_, _, _)
checkSourcesAwaited(st, srcs, ns) ==
  IF srcs = <<>> THEN st
  ELSE
    LET s1 == checkPendingBreakpoints(
                checkSelectedSource(st, Head(srcs).id, ns), Head(srcs).id, ns)
        s2 == [s1 EXCEPT !.tasks[Len(st.tasks) + 1].parent = ns,
                         !.tasks[Len(st.tasks) + 2].parent = ns]
    IN  checkSourcesAwaited(s2, Tail(srcs), ns)

\* newSources, lines 169-172: the two intent checks of every added source.
RECURSIVE checkSources(_, _, _)
checkSources(st, srcs, ns) ==
  IF srcs = <<>> THEN st
  ELSE checkSources(
         checkPendingBreakpoints(
           checkSelectedSource(st, Head(srcs).id, ns), Head(srcs).id, ns),
         Tail(srcs), ns)

\* loadSourceMaps, line 48: sources.map(source => dispatch(loadSourceMap)).
RECURSIVE mapLoadSourceMap(_, _, _, _)
mapLoadSourceMap(st, srcs, ns, lsms) ==
  IF srcs = <<>> THEN st
  ELSE mapLoadSourceMap(loadSourceMap(st, Head(srcs).id, ns, lsms),
                        Tail(srcs), ns, lsms)

\* Mutant: loadSourceMaps does not wait for the loadSourceMap promises.
PromiseAllNoWait(st, lsms, children) == Enqueue(st, "resume", lsms, TRUE)

\* Promise.all(promises): one reaction per promise, queued at once for a
\* promise that is already fulfilled.
RECURSIVE PromiseAll(_, _, _)
PromiseAll(st, lsms, children) ==
  IF children = <<>> THEN st
  ELSE PromiseAll(
         IF Settled(st.tasks[Head(children)])
         THEN Enqueue(st, "all", lsms, st.tasks[Head(children)].pc = "done")
         ELSE [st EXCEPT !.tasks[Head(children)].parent = lsms],
         lsms, Tail(children))

\* loadSourceMaps, lines 47-49, dispatched and awaited by newSources ns.
loadSourceMaps(st, srcs, ns) ==
  LET lsms == NextTid(st)
      task == [BlankTask EXCEPT !.kind = "loadSourceMaps", !.ns = ns,
                 !.caller = ns, !.parent = ns, !.pc = "Promise.all",
                 !.batch = srcs, !.waiting = Len(srcs)]
      s1 == mapLoadSourceMap(Spawn(st, task), srcs, ns, lsms)
  IN  IF Len(srcs) = 0 THEN Enqueue(s1, "resume", lsms, TRUE)
      ELSE PromiseAll(s1, lsms, [i \in 1..Len(srcs) |-> lsms + i])

\* Mutant: the filter keeps the new sources in reverse order.
filterSourcesReversed(reg, srcs) ==
  LET kept == SelectSeq(srcs, LAMBDA source : source # Null
                                 /\ source.id \notin DOMAIN reg)
  IN  [i \in 1..Len(kept) |-> kept[Len(kept) + 1 - i]]

\* Mutant: null entries pass the filter.
IsNewOrNull(reg, source) == getSource(reg, source.id) = Null

\* newSources, lines 156-158.
IsNew(reg, source) == source # Null /\ getSource(reg, source.id) = Null

\* Mutant: the filter drops null entries only, not registered sources.
filterSourcesIgnoringRegistry(reg, srcs) ==
  SelectSeq(srcs, LAMBDA source : source # Null)

filterSources(reg, srcs) == SelectSeq(srcs, LAMBDA source : IsNew(reg, source))

\* Mutant: no early return for an empty filtered batch.
IsEmptyBatchNever(filteredSources) == FALSE

\* newSources, line 160.
IsEmptyBatch(filteredSources) == Len(filteredSources) = 0

\* newSources, lines 156-174, up to its await.
newSources(st, srcs, caller) ==
  LET filteredSources == filterSources(st.sources, srcs)
      tid == NextTid(st)
      task == [BlankTask EXCEPT !.kind = "newSources", !.ns = tid,
                 !.caller = caller, !.batch = srcs,
                 !.filtered = filteredSources]
  IN  IF IsEmptyBatch(filteredSources)
      THEN Spawn(st, [task EXCEPT !.pc = "done"])
      ELSE
        LET s1 == Emit(Spawn(st, [task EXCEPT !.pc = "loadSourceMaps"]),
                       [Effect("ADD_SOURCES", tid, <<>>)
                          EXCEPT !.sources = filteredSources])
            s2 == [s1 EXCEPT !.sources = addSources(@, filteredSources)]
            s3 == checkSources(s2, filteredSources, tid)
        IN  loadSourceMaps(s3, filteredSources, tid)

----------------------------------------------------------------------------
\* The continuations after an await

\* What `await dispatch(loadSourceMap(id))` evaluates to: the thunk has no
\* return value on any path.
loadSourceMapResult(task) == Null

\* lodash flatten of a list whose elements are no arrays.
flatten(list) == list

\* loadSourceMaps, line 51, after Promise.all.
loadSourceMapsNewSources(st, lsms) ==
  LET t == st.tasks[lsms]
      originalSources ==
        [i \in 1..Len(t.batch) |-> loadSourceMapResult(st.tasks[lsms + i])]
      child == NextTid(st)
      s1 == newSources(st, flatten(originalSources), lsms)
  IN  Await([s1 EXCEPT !.tasks[lsms].pc = "newSources"], lsms, child)

\* loadSourceMap, lines 70-88, after the resolver call.
FalsyUrls(urls) == urls.kind = "null"

\* Mutant: no try / catch around the resolver call.
UrlsWithoutCatch(result) == result

\* lines 67-73: urls after try { urls = await ... } catch (e) { urls = null }
UrlsAfterTry(result) ==
  IF result.kind = "throw" THEN [kind |-> "null", urls |-> <<>>] ELSE result

loadSourceMapResolved(st, tid) ==
  LET t == st.tasks[tid]
      source == t.source
      urls == UrlsAfterTry(t.result)
  IN  IF urls.kind = "throw" THEN Reject(st, tid)
      ELSE IF FalsyUrls(urls)
      THEN
        LET cleared == [source EXCEPT !.sourceMapURL = ""]
            s1 == Emit(st, [Effect("UPDATE_SOURCE", tid, source.id)
                              EXCEPT !.sources = <<cleared>>])
        IN  Settle([s1 EXCEPT !.sources = updateSource(@, cleared)], tid)
      ELSE
        LET originalSources ==
              [i \in 1..Len(urls.urls) |->
                 createOriginalSource(urls.urls[i], source)]
        IN  Settle(newSources(st, originalSources, tid), tid)

\* checkPendingBreakpoints, lines 136-139.
syncBreakpoint(st, tid, k) ==
  LET t == st.tasks[tid]
  IN  Emit([st EXCEPT !.tasks[tid].pc = "syncBreakpoint",
                      !.tasks[tid].k = k],
           [Effect("syncBreakpoint", tid, t.sourceId)
              EXCEPT !.breakpoint = <<t.bps[k]>>])

\* Mutant: a failed call does not end the loop.
checkPendingBreakpointsResumedAnyway(st, tid, ok) ==
  LET t == st.tasks[tid]
  IN  IF t.k < Len(t.bps) THEN syncBreakpoint(st, tid, t.k + 1)
      ELSE Settle(st, tid)

\* checkPendingBreakpoints, lines 134-140, after an await.
checkPendingBreakpointsResumed(st, tid, ok) ==
  LET t == st.tasks[tid]
  IN  IF ~ ok THEN Reject(st, tid)
      ELSE IF t.k < Len(t.bps) THEN syncBreakpoint(st, tid, t.k + 1)
      ELSE Settle(st, tid)

----------------------------------------------------------------------------
\* The inputs: what the client, the user and the collaborators provide

UrlA == <<"a.js">>
UrlO1 == <<"o1.js">>
UrlO2 == <<"o2.js">>

UrlC == <<"c.js">>

\* Generated sources: two with a source map, the second of them without a
\* url, and one without a source map.
SourceA == Source(<<"G1">>, UrlA, "a.js.map")
SourceB == Source(<<"G2">>, NoUrl, "b.js.map")
SourceC == Source(<<"G3">>, UrlC, Undefined)

InputSources == {SourceA, SourceB, SourceC}

\* The batches the client passes to newSources; single sources come in
\* through newSource.
Batches ==
  {<<SourceA, SourceB>>, <<SourceC, SourceB, SourceC>>, <<Null, SourceB>>,
   <<Null>>}

ResolverResults ==
  {[kind |-> "throw", urls |-> <<>>], [kind |-> "null", urls |-> <<>>],
   [kind |-> "urls", urls |-> <<>>],
   [kind |-> "urls", urls |-> <<UrlO1, UrlO2>>]}

Location(url) == <<[url |-> url, line |-> 1]>>

PendingBreakpoint(url, line) == [sourceUrl |-> url, line |-> line]

\* The stored pending breakpoints: two for c.js, around one for a source
\* that never arrives.
StoredBreakpoints ==
  <<PendingBreakpoint(UrlC, 1), PendingBreakpoint(<<"x.js">>, 2),
    PendingBreakpoint(UrlC, 3)>>

\* The pending intents of the user: a pending selected location (none, one
\* without url, a pretty url, a raw url, the url of an original source) or
\* stored pending breakpoints (for a generated source without and with a
\* source map, for an original one).
Intents ==
  {<< <<>>, <<>> >>,
   << Location(NoUrl), <<>> >>,
   << Location(UrlA \o <<":formatted">>), <<>> >>,
   << Location(UrlA), <<>> >>,
   << Location(UrlO1), <<>> >>,
   << <<>>, StoredBreakpoints >>,
   << <<>>, <<PendingBreakpoint(UrlA, 1)>> >>,
   << <<>>, <<PendingBreakpoint(UrlO1, 1)>> >>}

----------------------------------------------------------------------------
\* The state machine

Init ==
  /\ sources = <<>>
  /\ \E intent \in Intents :
       /\ pendingSelectedLocation = intent[1]
       /\ pendingBreakpoints = intent[2]
  /\ tasks = <<>>
  /\ mq = <<>>
  /\ calls = 0

Commit(st) ==
  /\ sources' = st.sources
  /\ tasks' = st.tasks
  /\ mq' = st.mq

\* The state with the job at the head of the microtask queue taken.
Popped == [State EXCEPT !.mq = Tail(@)]

HeadIs(jobKind, taskKind) ==
  /\ mq # <<>>
  /\ Head(mq).kind = jobKind
  /\ tasks[Head(mq).task].kind = taskKind

\* The client calls newSources(srcs).
CallNewSources(srcs) ==
  /\ calls < MaxCalls
  /\ mq = <<>>
  /\ calls' = calls + 1
  /\ Commit(newSources(State, srcs, 0))
  /\ UNCHANGED <<pendingSelectedLocation, pendingBreakpoints>>

\* The client calls newSource(source), lines 148-152.
CallNewSource(source) ==
  /\ calls < MaxCalls
  /\ mq = <<>>
  /\ calls' = calls + 1
  /\ LET tid == NextTid(State)
         task == [BlankTask EXCEPT !.kind = "newSource", !.pc = "newSources"]
         s1 == newSources(Spawn(State, task), <<source>>, tid)
     IN  Commit(Await(s1, tid, tid + 1))
  /\ UNCHANGED <<pendingSelectedLocation, pendingBreakpoints>>

\* The client calls loadSourceMap(sourceId).
CallLoadSourceMap(sourceId) ==
  /\ calls < MaxCalls
  /\ mq = <<>>
  /\ calls' = calls + 1
  /\ Commit(loadSourceMap(State, sourceId, 0, 0))
  /\ UNCHANGED <<pendingSelectedLocation, pendingBreakpoints>>

\* sourceMaps.getOriginalURLs settles: the continuation of line 69 is queued.
ResolverSettles(tid, result) ==
  /\ mq = <<>>
  /\ tasks[tid].kind = "loadSourceMap"
  /\ tasks[tid].pc = "getOriginalURLs"
  /\ tasks' = [tasks EXCEPT ![tid].pc = "resolved", ![tid].result = result,
                           ![tid].settled = @ + 1]
  /\ mq' = Append(mq, [kind |-> "resume", task |-> tid,
                       ok |-> result.kind # "throw"])
  /\ UNCHANGED <<sources, calls, pendingSelectedLocation,
                 pendingBreakpoints>>

\* loadSourceText settles: the continuation of line 134 is queued.
LoadSourceTextSettles(tid, ok) ==
  /\ mq = <<>>
  /\ tasks[tid].kind = "checkPendingBreakpoints"
  /\ tasks[tid].pc = "loadSourceText"
  /\ tasks' = [tasks EXCEPT ![tid].pc = "loaded", ![tid].settled = @ + 1]
  /\ sources' = IF ok THEN setLoadedState(sources, tasks[tid].sourceId, "loaded")
                ELSE sources
  /\ mq' = Append(mq, [kind |-> "resume", task |-> tid, ok |-> ok])
  /\ UNCHANGED <<calls, pendingSelectedLocation, pendingBreakpoints>>

\* syncBreakpoint settles: the continuation of line 138 is queued.
SyncBreakpointSettles(tid, ok) ==
  /\ mq = <<>>
  /\ tasks[tid].kind = "checkPendingBreakpoints"
  /\ tasks[tid].pc = "syncBreakpoint"
  /\ tasks' = [tasks EXCEPT ![tid].pc = "synced", ![tid].settled = @ + 1]
  /\ mq' = Append(mq, [kind |-> "resume", task |-> tid, ok |-> ok])
  /\ UNCHANGED <<sources, calls, pendingSelectedLocation,
                 pendingBreakpoints>>

\* togglePrettyPrint or selectLocation settles (lines 109, 112).
SelectionSettles(tid) ==
  /\ mq = <<>>
  /\ tasks[tid].kind = "checkSelectedSource"
  /\ tasks[tid].pc \in {"togglePrettyPrint", "selectLocation"}
  /\ tasks' = [tasks EXCEPT ![tid].pc = "selected", ![tid].settled = @ + 1]
  /\ mq' = Append(mq, [kind |-> "resume", task |-> tid, ok |-> TRUE])
  /\ UNCHANGED <<sources, calls, pendingSelectedLocation,
                 pendingBreakpoints>>

\* A reaction of Promise.all (line 47): the last fulfilment fulfils the
\* promise loadSourceMaps awaits, the first rejection rejects it (k = 1:
\* that promise is settled).
PromiseAllReaction ==
  /\ mq # <<>>
  /\ Head(mq).kind = "all"
  /\ LET lsms == Head(mq).task
         s1 == [Popped EXCEPT !.tasks[lsms].waiting = @ - 1]
         last == s1.tasks[lsms].waiting = 0 \/ ~ Head(mq).ok
     IN  Commit(IF last /\ tasks[lsms].k = 0
                THEN Enqueue([s1 EXCEPT !.tasks[lsms].k = 1], "resume", lsms,
                             Head(mq).ok)
                ELSE s1)
  /\ UNCHANGED <<calls, pendingSelectedLocation, pendingBreakpoints>>

\* loadSourceMaps continues after line 47, then after line 51.
ResumeLoadSourceMaps ==
  /\ HeadIs("resume", "loadSourceMaps")
  /\ LET lsms == Head(mq).task
     IN  Commit(IF ~ Head(mq).ok THEN Reject(Popped, lsms)
                ELSE IF tasks[lsms].pc = "Promise.all"
                THEN loadSourceMapsNewSources(Popped, lsms)
                ELSE Settle(Popped, lsms))
  /\ UNCHANGED <<calls, pendingSelectedLocation, pendingBreakpoints>>

\* newSources continues after line 174 and returns.
ResumeNewSources ==
  /\ HeadIs("resume", "newSources")
  /\ Commit(SettleAs(Popped, Head(mq).task,
                     IF Head(mq).ok THEN "done" ELSE "rejected"))
  /\ UNCHANGED <<calls, pendingSelectedLocation, pendingBreakpoints>>

\* newSource continues after line 150 and returns.
ResumeNewSource ==
  /\ HeadIs("resume", "newSource")
  /\ Commit(SettleAs(Popped, Head(mq).task,
                     IF Head(mq).ok THEN "done" ELSE "rejected"))
  /\ UNCHANGED <<calls, pendingSelectedLocation, pendingBreakpoints>>

\* loadSourceMap continues after line 69.
ResumeLoadSourceMap ==
  /\ HeadIs("resume", "loadSourceMap")
  /\ Commit(loadSourceMapResolved(Popped, Head(mq).task))
  /\ UNCHANGED <<calls, pendingSelectedLocation, pendingBreakpoints>>

\* checkSelectedSource continues after line 109 or 112 and returns.
ResumeCheckSelectedSource ==
  /\ HeadIs("resume", "checkSelectedSource")
  /\ Commit(Settle(Popped, Head(mq).task))
  /\ UNCHANGED <<calls, pendingSelectedLocation, pendingBreakpoints>>

\* checkPendingBreakpoints continues after line 134 or 138.
ResumeCheckPendingBreakpoints ==
  /\ HeadIs("resume", "checkPendingBreakpoints")
  /\ Commit(checkPendingBreakpointsResumed(Popped, Head(mq).task,
                                            Head(mq).ok))
  /\ UNCHANGED <<calls, pendingSelectedLocation, pendingBreakpoints>>

TaskIds == 1..Len(tasks)

KnownIds == DOMAIN sources

Next ==
  \/ \E srcs \in Batches : CallNewSources(srcs)
  \/ \E source \in InputSources : CallNewSource(source)
  \/ \E sourceId \in KnownIds : CallLoadSourceMap(sourceId)
  \/ \E tid \in TaskIds : \E result \in ResolverResults :
       ResolverSettles(tid, result)
  \/ \E tid \in TaskIds : \E ok \in BOOLEAN : LoadSourceTextSettles(tid, ok)
  \/ \E tid \in TaskIds : \E ok \in BOOLEAN : SyncBreakpointSettles(tid, ok)
  \/ \E tid \in TaskIds : SelectionSettles(tid)
  \/ PromiseAllReaction
  \/ ResumeLoadSourceMaps
  \/ ResumeNewSources
  \/ ResumeNewSource
  \/ ResumeLoadSourceMap
  \/ ResumeCheckSelectedSource
  \/ ResumeCheckPendingBreakpoints

Spec == Init /\ [][Next]_vars

\* The event loop runs the jobs of the microtask queue until it is empty.
Microtask ==
  \/ PromiseAllReaction
  \/ ResumeLoadSourceMaps
  \/ ResumeNewSources
  \/ ResumeNewSource
  \/ ResumeLoadSourceMap
  \/ ResumeCheckSelectedSource
  \/ ResumeCheckPendingBreakpoints

\* Run to completion: a job is runnable exactly when the queue is not empty,
\* and the event loop runs jobs until the queue is empty before it does
\* anything else.  This is WF_vars(Microtask), stated with the enabling
\* condition of Microtask written out.
QueueDrains == []<>(mq = <<>>)

\* Every resolver call eventually returns or fails.
ResolvingSpec ==
  /\ Spec
  /\ QueueDrains
  /\ WF_vars(\E tid \in TaskIds : \E result \in ResolverResults :
               ResolverSettles(tid, result))

\* No call to loadSourceText or syncBreakpoint fails.
NextReturning ==
  \/ \E srcs \in Batches : CallNewSources(srcs)
  \/ \E source \in InputSources : CallNewSource(source)
  \/ \E sourceId \in KnownIds : CallLoadSourceMap(sourceId)
  \/ \E tid \in TaskIds : \E result \in ResolverResults :
       ResolverSettles(tid, result)
  \/ \E tid \in TaskIds : LoadSourceTextSettles(tid, TRUE)
  \/ \E tid \in TaskIds : SyncBreakpointSettles(tid, TRUE)
  \/ \E tid \in TaskIds : SelectionSettles(tid)
  \/ Microtask

\* Every call to loadSourceText and syncBreakpoint eventually returns.
ReturningSpec ==
  /\ Init
  /\ [][NextReturning]_vars
  /\ QueueDrains
  /\ WF_vars(\E tid \in TaskIds : LoadSourceTextSettles(tid, TRUE))
  /\ WF_vars(\E tid \in TaskIds : SyncBreakpointSettles(tid, TRUE))

----------------------------------------------------------------------------
\* Vocabulary of the properties

Range(seq) == {seq[i] : i \in DOMAIN seq}

Ids(srcs) == {srcs[i].id : i \in DOMAIN srcs}

TasksOf(kind) == {t \in TaskIds : tasks[t].kind = kind}

\* The effects of task t of the given type.
EffectsOf(t, type) == SelectSeq(tasks[t].effects, LAMBDA e : e.type = type)

AllEffects == UNION {Range(tasks[t].effects) : t \in TaskIds}

AddEffects == {e \in AllEffects : e.type = "ADD_SOURCES"}

\* Task u was dispatched by task t or by a task dispatched on behalf of t.
RECURSIVE OnBehalfOf(_, _)
OnBehalfOf(u, t) ==
  /\ tasks[u].caller # 0
  /\ \/ tasks[u].caller = t
     \/ OnBehalfOf(tasks[u].caller, t)

\* The source ids an effect is about.
Subjects(e) == {e.sourceId} \cup Ids(e.sources)

\* The entries of the batch of newSources call t that were registered
\* already when the call was made.
RegisteredEntries(t) ==
  {s \in Range(tasks[t].batch) : s # Null /\ s.id \notin Ids(tasks[t].filtered)}

\* A client call is in progress: one of its resolver calls is pending.
ResolverPending == \E u \in TasksOf("loadSourceMap") : tasks[u].pc = "getOriginalURLs"

----------------------------------------------------------------------------
\* C1: no source id is carried by two different ADD_SOURCES effects, under
\* any interleaving of newSource, newSources and loadSourceMap calls.
NoSourceAddedTwice ==
  \A e1, e2 \in AddEffects :
    e1.task # e2.task => Ids(e1.sources) \cap Ids(e2.sources) = {}

\* C1 witness: a second newSources call, made with a source that an earlier
\* call had registered, has added the rest of its batch while a resolver
\* call is still pending.
SecondCallOverlaps ==
  \E t \in TasksOf("newSources") :
    /\ RegisteredEntries(t) # {}
    /\ EffectsOf(t, "ADD_SOURCES") # <<>>
    /\ \E u \in TasksOf("loadSourceMap") :
         u < t /\ tasks[u].pc = "getOriginalURLs"

\* C2: a newSources call whose entries are all null or registered has no
\* effect and dispatches nothing; in a mixed batch no effect made on behalf
\* of the call is about an entry that was registered already.
DuplicatesHaveNoEffect ==
  \A t \in TasksOf("newSources") :
    /\ tasks[t].filtered = <<>> =>
         /\ tasks[t].effects = <<>>
         /\ tasks[t].pc = "done"
         /\ \A u \in TaskIds : ~ OnBehalfOf(u, t)
    /\ \A s \in RegisteredEntries(t) :
         /\ \A e \in Range(tasks[t].effects) : s.id \notin Subjects(e)
         /\ \A u \in TaskIds :
              OnBehalfOf(u, t) =>
                /\ tasks[u].sourceId # s.id
                /\ \A e \in Range(tasks[u].effects) : s.id \notin Subjects(e)

\* C2 witness: a mixed batch holding a registered entry whose url has a
\* pending selection has been processed to completion.
MixedBatchProcessed ==
  \E t \in TasksOf("newSources") :
    /\ tasks[t].filtered # <<>>
    /\ tasks[t].pc = "done"
    /\ \E s \in RegisteredEntries(t) :
         selectionRequest(pendingSelectedLocation, s) # "none"

----------------------------------------------------------------------------
\* The loadSourceMap invocations whose resolver call has been answered with
\* result kind and that have run to their end.
Answered(kind) ==
  {t \in TasksOf("loadSourceMap") :
     tasks[t].pc = "done" /\ tasks[t].settled = 1 /\ tasks[t].result.kind = kind}

\* The UPDATE_SOURCE effects of loadSourceMap invocation t are exactly one,
\* which sets the sourceMapURL of the source of t to the empty string.
ClearsSourceMap(t) ==
  LET updates == EffectsOf(t, "UPDATE_SOURCE")
  IN  /\ Len(updates) = 1
      /\ updates[1].sourceId = tasks[t].sourceId
      /\ Len(updates[1].sources) = 1
      /\ updates[1].sources[1].id = tasks[t].sourceId
      /\ updates[1].sources[1].sourceMapURL = ""

\* Nothing was dispatched by loadSourceMap invocation t: no newSources call
\* for original sources.
RegistersNothing(t) == \A u \in TaskIds : ~ OnBehalfOf(u, t)

\* id is the id of an original source of the generated source generatedId.
IsOriginalOf(id, generatedId) ==
  /\ Len(id) > Len(generatedId)
  /\ SubSeq(id, 1, Len(generatedId)) = generatedId

\* The thunks that make up a newSource / newSources call.
CallTasks ==
  TasksOf("newSource") \cup TasksOf("newSources")
    \cup TasksOf("loadSourceMaps") \cup TasksOf("loadSourceMap")

\* C3 (as the spec states it): a batch [x, y, x] of two different sources
\* that are both absent from the registry produces exactly one ADD_SOURCES
\* effect, and that effect carries [x, y].
DuplicateInBatchAddedOnce ==
  \A t \in TasksOf("newSources") :
    LET batch == tasks[t].batch
        adds == EffectsOf(t, "ADD_SOURCES")
    IN  (/\ Len(batch) = 3
         /\ batch[1] = batch[3]
         /\ batch[1] # batch[2]
         /\ batch[1] # Null /\ batch[2] # Null
         /\ {batch[1].id, batch[2].id} \subseteq Ids(tasks[t].filtered))
        => /\ Len(adds) = 1
           /\ adds[1].sources = <<batch[1], batch[2]>>

\* C4: a resolver call that throws is absorbed by loadSourceMap: that
\* invocation clears the sourceMapURL of its source with one UPDATE_SOURCE
\* and registers no original source; no thunk of a newSource / newSources
\* call is ever rejected, every newSources call whose resolver calls have all
\* been answered completes, and the original sources of the other sources
\* of the batch are registered.
ResolverFailureAbsorbed ==
  /\ \A t \in Answered("throw") :
       /\ ClearsSourceMap(t)
       /\ RegistersNothing(t)
       /\ \A u \in Answered("urls") :
            tasks[u].ns = tasks[t].ns =>
              \A i \in DOMAIN tasks[u].result.urls :
                generatedToOriginalId(tasks[u].sourceId,
                                      tasks[u].result.urls[i]) \in DOMAIN sources
  /\ \A t \in CallTasks : tasks[t].pc # "rejected"
  /\ \A n \in TasksOf("newSources") :
       (/\ mq = <<>>
        /\ \A u \in TasksOf("loadSourceMap") :
             tasks[u].ns = n => tasks[u].pc = "done")
       => tasks[n].pc = "done"

\* C4 witness: in one batch a resolver call threw and another returned
\* urls, and the newSources call of that batch has completed.
FailureBesideSuccess ==
  \E t \in Answered("throw") : \E u \in Answered("urls") :
    /\ tasks[t].ns = tasks[u].ns
    /\ tasks[t].ns # 0
    /\ tasks[u].result.urls # <<>>
    /\ tasks[tasks[t].ns].pc = "done"

\* C5 (as the spec states it): a resolver call that returns no list or an
\* empty list makes loadSourceMap clear the sourceMapURL of its source with
\* one UPDATE_SOURCE and register no original source.
EmptyResultClearsSourceMap ==
  \A t \in Answered("null") \cup Answered("urls") :
    (tasks[t].result.kind = "null" \/ tasks[t].result.urls = <<>>)
      => ClearsSourceMap(t) /\ RegistersNothing(t)

\* C6: a resolver call that returns a non-empty list of urls makes
\* loadSourceMap register one original source per url: its id is derived
\* from the generated id and the url, it is unloaded, not pretty-printed,
\* not wasm and not black-boxed, different urls give different sources,
\* it was added by a loadSourceMap of that generated source, and the
\* invocation updates no source; the registry holds no other
\* original source of a generated source than those of the returned urls.
OriginalSourcesRegistered ==
  /\ \A t \in Answered("urls") :
       LET urls == tasks[t].result.urls
       IN  Len(urls) > 0 =>
             /\ EffectsOf(t, "UPDATE_SOURCE") = <<>>
             /\ \A i \in DOMAIN urls :
                  LET id == generatedToOriginalId(tasks[t].sourceId, urls[i])
                      carriers ==
                        {<<e, j>> \in AddEffects \X (1..3) :
                           j \in DOMAIN e.sources /\ e.sources[j].id = id}
                  IN  /\ id \in DOMAIN sources
                      /\ carriers # {}
                      /\ \A j \in DOMAIN urls :
                           urls[j] # urls[i] =>
                             generatedToOriginalId(tasks[t].sourceId, urls[j])
                               # id
                      /\ \A c \in carriers :
                           LET original == c[1].sources[c[2]]
                           IN  /\ original.url = urls[i]
                               /\ original.loadedState = "unloaded"
                               /\ ~ original.isPrettyPrinted
                               /\ ~ original.isWasm
                               /\ ~ original.isBlackBoxed
                               /\ \E u \in TasksOf("loadSourceMap") :
                                    /\ tasks[u].sourceId = tasks[t].sourceId
                                    /\ tasks[c[1].task].caller = u
  /\ \A id \in DOMAIN sources : \A g \in InputSources :
       IsOriginalOf(id, g.id) =>
         \E t \in TasksOf("loadSourceMap") :
           /\ tasks[t].sourceId = g.id
           /\ tasks[t].result.kind = "urls"
           /\ \E i \in DOMAIN tasks[t].result.urls :
                id = generatedToOriginalId(g.id, tasks[t].result.urls[i])

\* C6 witness: a resolver call returned two urls and both original sources
\* are in the registry.
TwoOriginalsRegistered ==
  \E t \in Answered("urls") :
    /\ Len(tasks[t].result.urls) = 2
    /\ \A i \in DOMAIN tasks[t].result.urls :
         generatedToOriginalId(tasks[t].sourceId, tasks[t].result.urls[i])
           \in DOMAIN sources

----------------------------------------------------------------------------
\* The source that checkSelectedSource / checkPendingBreakpoints invocation
\* u is about, as its newSources call added it.
CheckedSource(u) ==
  CHOOSE s \in Range(tasks[tasks[u].caller].filtered) : s.id = tasks[u].sourceId

\* The pending selection intent is for source s.
IntentMatches(s) ==
  /\ pendingSelectedLocation # <<>>
  /\ pendingSelectedLocation[1].url # NoUrl
  /\ s.url # NoUrl
  /\ getRawSourceURL(pendingSelectedLocation[1].url) = s.url

\* C7: every source of an ADD_SOURCES effect is checked against the pending
\* selection intent by the call that added it; the check requests
\* togglePrettyPrint of the source and nothing else if the intent is for
\* the source and its url is pretty, selectLocation with the fields of the
\* intent and the id of the source and nothing else if the intent is for
\* the source and its url is not pretty, and nothing in every other case.
SelectionFollowsIntent ==
  /\ \A e \in AddEffects : \A i \in DOMAIN e.sources :
       \E u \in TasksOf("checkSelectedSource") :
         tasks[u].caller = e.task /\ tasks[u].sourceId = e.sources[i].id
  /\ \A u \in TasksOf("checkSelectedSource") :
       LET s == CheckedSource(u)
           effects == tasks[u].effects
       IN  IF IntentMatches(s) /\ isPrettyURL(pendingSelectedLocation[1].url)
           THEN /\ Len(effects) = 1
                /\ effects[1].type = "togglePrettyPrint"
                /\ effects[1].sourceId = s.id
           ELSE IF IntentMatches(s)
           THEN /\ Len(effects) = 1
                /\ effects[1].type = "selectLocation"
                /\ effects[1].sourceId = s.id
                /\ effects[1].location =
                     <<[url |-> pendingSelectedLocation[1].url,
                        line |-> pendingSelectedLocation[1].line,
                        sourceId |-> s.id]>>
           ELSE effects = <<>>

\* C7 witness: a pretty-print toggle was requested for an added source and
\* has completed.
PrettyPrintToggled ==
  \E u \in TasksOf("checkSelectedSource") :
    /\ tasks[u].pc = "done"
    /\ EffectsOf(u, "togglePrettyPrint") # <<>>

\* The calls of one checkPendingBreakpoints invocation: loadSourceText
\* first, then one syncBreakpoint per pending breakpoint of the url of the
\* source in stored order, each made after every earlier call has completed.
InOrderPerCheck(t) ==
  LET effects == tasks[t].effects
      bps == SelectSeq(pendingBreakpoints,
                       LAMBDA bp : bp.sourceUrl = CheckedSource(t).url)
  IN  /\ Len(effects) <= Len(bps) + 1
      /\ Len(effects) <= tasks[t].settled + 1
      /\ bps # <<>> =>
           /\ effects # <<>>
           /\ effects[1].type = "loadSourceText"
           /\ effects[1].sourceId = tasks[t].sourceId
      /\ \A i \in 2..Len(effects) :
           /\ effects[i].type = "syncBreakpoint"
           /\ effects[i].sourceId = tasks[t].sourceId
           /\ effects[i].breakpoint = <<bps[i - 1]>>
      /\ tasks[t].pc = "done" => Len(effects) = Len(bps) + 1 \/ bps = <<>>

\* C8 (as the spec states it): for an added source with pending
\* breakpoints no syncBreakpoint call is made before loadSourceText has
\* completed, the calls follow the stored order, and they are made one at
\* a time: no two syncBreakpoint calls for one source are in progress.
BreakpointsSyncedOneAtATime ==
  /\ \A t \in TasksOf("checkPendingBreakpoints") : InOrderPerCheck(t)
  /\ \A id \in DOMAIN sources :
       Cardinality({t \in TasksOf("checkPendingBreakpoints") :
                      tasks[t].sourceId = id /\ tasks[t].pc = "syncBreakpoint"})
         <= 1

\* C9: when a newSources call that added sources completes, every thunk of
\* the source-map resolution made on its behalf has completed (the
\* loadSourceMap of every added source, and the nested newSources calls with
\* their own resolution), no resolver call is pending, and the original
\* sources of every url a resolver call returned are in the registry.
CompletesAfterResolution ==
  \A n \in TasksOf("newSources") :
    (tasks[n].pc = "done" /\ tasks[n].filtered # <<>>) =>
      /\ \A i \in DOMAIN tasks[n].filtered :
           \E u \in TasksOf("loadSourceMap") :
             OnBehalfOf(u, n) /\ tasks[u].sourceId = tasks[n].filtered[i].id
      /\ \A u \in CallTasks :
           OnBehalfOf(u, n) =>
             /\ tasks[u].pc = "done"
             /\ \A i \in DOMAIN tasks[u].result.urls :
                  generatedToOriginalId(tasks[u].sourceId,
                                        tasks[u].result.urls[i])
                    \in DOMAIN sources

\* C9 witness: a newSources call has completed whose resolution registered
\* original sources through a nested newSources call.
CompletedWithOriginals ==
  \E n \in TasksOf("newSources") : \E m \in TasksOf("newSources") :
    /\ tasks[n].pc = "done"
    /\ tasks[n].caller = 0
    /\ OnBehalfOf(m, n)
    /\ tasks[m].filtered # <<>>
    /\ tasks[m].pc = "done"

\* C10: a loadSourceMap invocation on a source whose id is not a generated
\* id, or whose sourceMapURL is empty or absent, returns at once: it makes
\* no resolver call, dispatches no UPDATE_SOURCE and registers no source.
NoSourceMapNoEffect ==
  \A t \in TasksOf("loadSourceMap") :
    LET s == tasks[t].source
    IN  (s # Null /\ (~ isGeneratedId(s.id) \/ s.sourceMapURL \in {"", Undefined}))
          => /\ tasks[t].effects = <<>>
             /\ tasks[t].settled = 0
             /\ tasks[t].pc = "done"
             /\ RegistersNothing(t)

\* C10 witness: loadSourceMap has run on an original source and on a
\* generated source whose sourceMapURL had been cleared.
EarlyReturnsTaken ==
  /\ \E t \in TasksOf("loadSourceMap") :
       ~ isGeneratedId(tasks[t].sourceId) /\ tasks[t].pc = "done"
  /\ \E t \in TasksOf("loadSourceMap") :
       /\ isGeneratedId(tasks[t].sourceId)
       /\ tasks[t].source.sourceMapURL = ""
       /\ tasks[t].pc = "done"

----------------------------------------------------------------------------
\* The ids that ADD_SOURCES effects of newSources calls made before call n
\* carry: the registry when call n was made.
RegisteredBefore(n) ==
  UNION {Ids(tasks[m].effects[i].sources) :
           <<m, i>> \in {<<k, j>> \in (1..(n - 1)) \X {1} :
                           /\ tasks[k].kind = "newSources"
                           /\ j \in DOMAIN tasks[k].effects
                           /\ tasks[k].effects[j].type = "ADD_SOURCES"}}

\* The entries of the batch of call n that are neither null nor registered
\* when the call was made, in input order.
Survivors(n) ==
  SelectSeq(tasks[n].batch,
            LAMBDA s : s # Null /\ s.id \notin RegisteredBefore(n))

\* C11 (as the spec states it): the original sources found for a batch are
\* added by a single newSources call, and none of them is added while the
\* resolver call of another source of the batch is pending.
OriginalsAddedAfterAllResolved ==
  \A n \in TasksOf("newSources") :
    LET adders == {m \in TasksOf("newSources") :
                     /\ OnBehalfOf(m, n)
                     /\ EffectsOf(m, "ADD_SOURCES") # <<>>}
    IN  /\ Cardinality(adders) <= 1
        /\ adders # {} =>
             \A u \in TasksOf("loadSourceMap") :
               tasks[u].ns = n => tasks[u].pc # "getOriginalURLs"

\* C12: a newSources call with survivors dispatches exactly one ADD_SOURCES,
\* as its first effect, carrying exactly the survivors in input order; a
\* call without survivors dispatches none; every selection check,
\* breakpoint check and loadSourceMap for a survivor is started after that
\* dispatch, with the whole batch in the registry.
OneAddSourcesFirst ==
  \A n \in TasksOf("newSources") :
    LET adds == EffectsOf(n, "ADD_SOURCES")
        survivors == Survivors(n)
        survivorIds == Ids(survivors)
    IN  /\ survivors = <<>> => tasks[n].effects = <<>>
        /\ survivors # <<>> =>
             /\ Len(tasks[n].effects) = 1
             /\ Len(adds) = 1
             /\ adds[1].sources = survivors
             /\ survivorIds \subseteq DOMAIN sources
        /\ \A u \in TaskIds :
             (/\ tasks[u].kind \in {"checkSelectedSource",
                                    "checkPendingBreakpoints", "loadSourceMap"}
              /\ tasks[u].sourceId \in survivorIds)
             => u > n /\ ~ (tasks[u].pc = "rejected" /\ tasks[u].settled = 0)

\* C12 witness: the survivors of a batch that also held a null or registered
\* entry have been added and a resolver call for one of them is pending.
BatchAddedThenResolved ==
  \E n \in TasksOf("newSources") :
    /\ Survivors(n) # <<>>
    /\ Len(Survivors(n)) < Len(tasks[n].batch)
    /\ \E u \in TasksOf("loadSourceMap") :
         tasks[u].ns = n /\ tasks[u].pc = "getOriginalURLs"

----------------------------------------------------------------------------
IntentChecks ==
  TasksOf("checkSelectedSource") \cup TasksOf("checkPendingBreakpoints")

\* A call to a collaborator made by intent check u has not returned.
CallPending(u) ==
  tasks[u].pc \in {"togglePrettyPrint", "selectLocation", "loadSourceText",
                   "syncBreakpoint"}

\* C14: the intent checks are not awaited: no thunk waits for the promise
\* of a check, and a newSources call whose loadSourceMap invocations have
\* all returned completes once the microtask queue has drained, whatever the
\* state of its checks.
ChecksAreNotAwaited ==
  /\ \A u \in IntentChecks : tasks[u].parent = 0
  /\ \A n \in TasksOf("newSources") :
       (/\ mq = <<>>
        /\ \A u \in TasksOf("loadSourceMap") :
             tasks[u].ns = n => tasks[u].pc = "done"
        /\ \E u \in IntentChecks : tasks[u].ns = n /\ CallPending(u))
       => tasks[n].pc = "done"

\* C14 witness: a newSources call has completed while the text load of one
\* of its sources is pending, so that no breakpoint sync has been made.
CompletedBeforeChecks ==
  \E n \in TasksOf("newSources") : \E u \in TasksOf("checkPendingBreakpoints") :
    /\ tasks[n].pc = "done"
    /\ tasks[u].ns = n
    /\ tasks[u].pc = "loadSourceText"
    /\ EffectsOf(u, "syncBreakpoint") = <<>>

\* C15: a breakpoint check of a source whose url has no pending breakpoint
\* makes no call: no loadSourceText, no syncBreakpoint.
NoBreakpointsNoLoad ==
  \A t \in TasksOf("checkPendingBreakpoints") :
    (\A i \in DOMAIN pendingBreakpoints :
       pendingBreakpoints[i].sourceUrl # CheckedSource(t).url)
    => /\ tasks[t].effects = <<>>
       /\ tasks[t].settled = 0
       /\ tasks[t].pc = "done"
       /\ sources[tasks[t].sourceId].loadedState = "unloaded"

\* C15 witness: with breakpoints pending for other urls, a source without
\* pending breakpoints has been added and checked.
CheckedWithoutBreakpoints ==
  /\ pendingBreakpoints # <<>>
  /\ \E t \in TasksOf("checkPendingBreakpoints") :
       /\ tasks[t].bps = <<>>
       /\ CheckedSource(t).url # NoUrl

\* The fields of a source record other than sourceMapURL.
OtherFields ==
  {"id", "url", "isPrettyPrinted", "isWasm", "isBlackBoxed", "loadedState"}

\* C16 (as the spec states it): when loadSourceMap dispatches UPDATE_SOURCE,
\* every field but sourceMapURL of the record it carries equals that field
\* of the source in the registry at that moment.
UpdateCarriesCurrentRecord ==
  [][\A t \in TaskIds :
       LET old == tasks[t].effects
           new == tasks'[t].effects
       IN  (/\ tasks[t].kind = "loadSourceMap"
            /\ Len(new) > Len(old)
            /\ new[Len(new)].type = "UPDATE_SOURCE")
           => \A field \in OtherFields :
                new[Len(new)].sources[1][field]
                  = sources[tasks[t].sourceId][field]]_vars

\* C18: every re-fetch of a source by a selection check, a breakpoint check
\* or a loadSourceMap made on behalf of a newSources call finds the source
\* in the registry, and no step removes a source from the registry.
RefetchFindsSource ==
  /\ [](\A u \in TaskIds :
          (/\ tasks[u].kind \in {"checkSelectedSource",
                                 "checkPendingBreakpoints", "loadSourceMap"}
           /\ tasks[u].ns # 0)
          => /\ tasks[u].sourceId \in DOMAIN sources
             /\ ~ (tasks[u].pc = "rejected" /\ tasks[u].settled = 0)
             /\ tasks[u].kind = "loadSourceMap" =>
                  /\ tasks[u].source # Null
                  /\ tasks[u].source.id = tasks[u].sourceId)
  /\ [][DOMAIN sources \subseteq DOMAIN sources']_vars

\* C18 witness: while a resolver call of a first call is pending, a second
\* call has added further sources and their checks have re-fetched them.
RefetchedDuringOverlap ==
  \E u \in TasksOf("loadSourceMap") : \E v \in IntentChecks :
    /\ tasks[u].pc = "getOriginalURLs"
    /\ tasks[v].ns > tasks[u].ns
    /\ tasks[u].ns # 0
    /\ tasks[tasks[v].ns].caller = 0

\* C19: a failed loadSourceText or syncBreakpoint ends the breakpoint check
\* that made it: the check is rejected, makes no further call and nobody
\* waits for it; the step changes neither the registry, nor any other thunk,
\* nor any effect dispatched so far, and queues nothing.
FailureEndsCheckOnly ==
  [][/\ \A t \in TaskIds :
          tasks[t].pc = "rejected" => tasks'[t] = tasks[t]
     /\ (/\ mq # <<>>
         /\ ~ Head(mq).ok
         /\ tasks[Head(mq).task].kind = "checkPendingBreakpoints")
        => /\ tasks'[Head(mq).task] =
                [tasks[Head(mq).task] EXCEPT !.pc = "rejected"]
           /\ tasks[Head(mq).task].parent = 0
           /\ \A t \in TaskIds : t # Head(mq).task => tasks'[t] = tasks[t]
           /\ Len(tasks') = Len(tasks)
           /\ sources' = sources
           /\ mq' = Tail(mq)]_vars

\* C19 witness: the first syncBreakpoint call of a check with two pending
\* breakpoints has failed after the newSources call that scheduled the
\* check had completed.
FirstSyncFailed ==
  \E t \in TasksOf("checkPendingBreakpoints") :
    /\ tasks[t].pc = "rejected"
    /\ Len(tasks[t].effects) = 2
    /\ tasks[t].settled = 2
    /\ Len(tasks[t].bps) = 2
    /\ tasks[tasks[t].ns].pc = "done"

----------------------------------------------------------------------------
\* The pending breakpoints stored for the url of the source of check t.
StoredFor(t) ==
  SelectSeq(pendingBreakpoints,
            LAMBDA bp : bp.sourceUrl = CheckedSource(t).url)

\* Breakpoint check t has called loadSourceText for its source and
\* syncBreakpoint for each pending breakpoint of its url.
AllIssued(t) ==
  \/ StoredFor(t) = <<>>
  \/ /\ EffectsOf(t, "loadSourceText") # <<>>
     /\ \A i \in DOMAIN StoredFor(t) :
          \E j \in DOMAIN tasks[t].effects :
            /\ tasks[t].effects[j].type = "syncBreakpoint"
            /\ tasks[t].effects[j].sourceId = tasks[t].sourceId
            /\ tasks[t].effects[j].breakpoint = <<StoredFor(t)[i]>>

\* C13: every source an ADD_SOURCES effect carries, original sources
\* included, gets a selection check and a breakpoint check from the call
\* that added it; and if every loadSourceText and syncBreakpoint call
\* returns, every breakpoint check eventually has called loadSourceText and
\* syncBreakpoint for each pending breakpoint of the url of its source.
AddedSourcesGetChecked ==
  /\ [](\A e \in AddEffects : \A i \in DOMAIN e.sources :
          \A kind \in {"checkSelectedSource", "checkPendingBreakpoints"} :
            \E u \in TasksOf(kind) :
              tasks[u].caller = e.task /\ tasks[u].sourceId = e.sources[i].id)
  /\ []<>(\A t \in TasksOf("checkPendingBreakpoints") : AllIssued(t))

\* C13 witness: the pending breakpoint of an original source has been
\* synchronized.
OriginalBreakpointSynced ==
  \E t \in TasksOf("checkPendingBreakpoints") :
    /\ ~ isGeneratedId(tasks[t].sourceId)
    /\ StoredFor(t) # <<>>
    /\ AllIssued(t)
    /\ tasks[t].pc = "done"

\* C17: the batch of a nested newSources call holds only absent entries and
\* sources that are not generated, so the loadSourceMap invocations of a
\* nested call make no resolver call and the recursion stops there; and if
\* every resolver call returns or fails, every newSources call made so far
\* is complete again and again.
NewSourcesTerminates ==
  /\ [](\A m \in TasksOf("newSources") :
          (/\ tasks[m].caller # 0
           /\ tasks[tasks[m].caller].kind \in {"loadSourceMap", "loadSourceMaps"})
          =>
            /\ \A i \in DOMAIN tasks[m].batch :
                 \/ tasks[m].batch[i] = Null
                 \/ ~ isGeneratedId(tasks[m].batch[i].id)
            /\ \A u \in TasksOf("loadSourceMap") :
                 tasks[u].ns = m => tasks[u].settled = 0 /\ tasks[u].effects = <<>>)
  /\ []<>(\A n \in TasksOf("newSources") : tasks[n].pc = "done")

\* C17 witness: a newSources call and the two levels of newSources calls
\* nested in it have completed.
RecursionUnwound ==
  \E n \in TasksOf("newSources") : \E m \in TasksOf("newSources") :
    \E k \in TasksOf("newSources") :
      /\ tasks[n].caller = 0
      /\ OnBehalfOf(m, n)
      /\ tasks[m].filtered # <<>>
      /\ OnBehalfOf(k, m)
      /\ tasks[n].pc = "done" /\ tasks[m].pc = "done" /\ tasks[k].pc = "done"

====
